---- MODULE Spec2Model ----
(***************************************************************************)
(* A model of the blades federated-learning core:                          *)
(*   - TorchClient / ClientWithMomentum  (src/src/blades/client.py,        *)
(*     src/src/simulators/actor.py): the per-participant parameter,        *)
(*     gradient and update store;                                          *)
(*   - Autogm (src/src/blades/aggregators/autogm.py): the adaptive-weight  *)
(*     geometric-median aggregator.                                        *)
(*                                                                         *)
(* Numbers.  A tensor element is a pair <<n, d>>: the rational n/d in      *)
(* lowest terms with d > 0, or one of the three IEEE specials, written     *)
(* with a zero denominator: NaN = <<0,0>>, +Inf = <<1,0>>, -Inf = <<-1,0>>.*)
(* A finite result whose magnitude exceeds FMax overflows to +-Inf, as a   *)
(* float does at torch.finfo(dtype).max.  Rounding of finite values is not *)
(* modelled: finite arithmetic is exact.                                   *)
(***************************************************************************)
EXTENDS Integers, Sequences, FiniteSets, TLC

\* ------------------------------------------------------------------ bounds
\* Largest finite magnitude of the element type (torch.finfo(dtype).max).
FMax == 1
\* Most data batches handed to one local_training call.
MaxBatches == 1
\* Most momentum-buffer refreshes followed in the momentum variant.
MaxSteps == 3

\* ------------------------------------------------------------------ numbers
NaN == <<0, 0>>
Inf == <<1, 0>>
NInf == <<-1, 0>>
Zero == <<0, 1>>

Abs(x) == IF x < 0 THEN -x ELSE x

\* The value of a one-element set: binds an intermediate result.
One(S) == CHOOSE x \in S : TRUE

RECURSIVE GCD(_, _)
GCD(a, b) == IF b = 0 THEN a ELSE GCD(b, a % b)

IsNaN(x) == x = NaN
IsFinite(x) == x[2] # 0

\* n/d (d > 0) in lowest terms, overflowing to an infinity beyond FMax.
Round(n, d) ==
    IF n > FMax * d THEN Inf
    ELSE IF n < -(FMax * d) THEN NInf
    ELSE LET g == GCD(Abs(n), d) IN <<n \div g, d \div g>>

FInt(n) == Round(n, 1)

FNeg(x) == <<-x[1], x[2]>>

\* IEEE addition: NaN propagates, Inf + -Inf = NaN.
FAdd(x, y) ==
    IF IsNaN(x) \/ IsNaN(y) THEN NaN
    ELSE IF ~IsFinite(x) /\ ~IsFinite(y) THEN (IF x = y THEN x ELSE NaN)
    ELSE IF ~IsFinite(x) THEN x
    ELSE IF ~IsFinite(y) THEN y
    ELSE Round(x[1] * y[2] + y[1] * x[2], x[2] * y[2])

FSub(x, y) == FAdd(x, FNeg(y))

Sign(n) == IF n > 0 THEN 1 ELSE IF n < 0 THEN -1 ELSE 0

\* IEEE multiplication: NaN propagates, 0 * Inf = NaN.
FMul(x, y) ==
    IF IsNaN(x) \/ IsNaN(y) THEN NaN
    ELSE IF ~IsFinite(x) \/ ~IsFinite(y) THEN
        (IF x[1] = 0 \/ y[1] = 0 THEN NaN ELSE <<Sign(x[1]) * Sign(y[1]), 0>>)
    ELSE Round(x[1] * y[1], x[2] * y[2])

\* Elementwise operations on tensors (sequences of elements of equal length).
TSub(a, b) == [i \in 1..Len(a) |-> FSub(a[i], b[i])]
TAdd(a, b) == [i \in 1..Len(a) |-> FAdd(a[i], b[i])]
TScale(a, c) == [i \in 1..Len(a) |-> FMul(a[i], c)]

\* A sanitizer that zeroes every non-finite entry.
nan_to_num_elem_zeroing(x) == IF IsFinite(x) THEN x ELSE Zero

\* torch.nan_to_num with its default arguments: NaN becomes 0, +Inf the
\* greatest finite value of the dtype, -Inf the least finite value.
nan_to_num_elem(x) ==
    IF IsNaN(x) THEN Zero
    ELSE IF x = Inf THEN FInt(FMax)
    ELSE IF x = NInf THEN FInt(-FMax)
    ELSE x

nan_to_num(t) == [i \in 1..Len(t) |-> nan_to_num_elem(t[i])]

\* ------------------------------------------------------------ client state
\* The model's parameters, in the order of optimizer.param_groups (which is
\* the order of model.parameters()), and the element count of each.
Numel == <<1, 1>>
P == 1..Len(Numel)

\* p.grad is None; also: a key that self.state[p] does not hold.
None == <<>>

\* Values a model's parameters hold when it is handed to set_model/set_para.
ModelVals == {FInt(0)}
\* Per-element gradients loss.backward() can produce.
GradVals == {FInt(-1), FInt(1)}
\* Per-element gradients the batches handed to local_training yield.
BatchGradVals == {FInt(-1)}
\* The learning rate the optimizer is built with.
LR == FInt(1)
\* Momentum factors of ClientWithMomentum, in [0, 1).
MomentumVals == {<<0, 1>>, <<1, 2>>}

Tensors(vals, n) == [1..n -> vals]
ParamTensors(vals) == {f \in [P -> UNION {Tensors(vals, Numel[p]) : p \in P}] :
                          \A p \in P : Len(f[p]) = Numel[p]}
Zeros(n) == [i \in 1..n |-> Zero]
ModelTensors == ParamTensors(ModelVals)
GradTensors == ParamTensors(GradVals)
BatchTensors == ParamTensors(BatchGradVals)

\* self.state['saved_update'] of a fresh client: the defaultdict makes an
\* empty dict on first access.
EmptyDict == [kind |-> "dict", v |-> <<>>]
Tensor(v) == [kind |-> "tensor", v |-> v]

VARIABLES
    variant,          \* "plain" (TorchClient) or "momentum" (ClientWithMomentum)
    momentum,         \* self.momentum of the momentum variant
    set_to_none,      \* the default of Optimizer.zero_grad in the installed torch
    model_set,        \* self.model and self.optimizer exist
    loss_set,         \* self.loss_func exists
    iter_set,         \* self.running holds "train_loader_iterator"
    data,             \* p.data of every parameter
    requires_grad,    \* p.requires_grad of every parameter
    grad,             \* p.grad of every parameter (None or a tensor)
    saved_grad,       \* self.state[p]["saved_grad"]
    saved_para,       \* self.state[p]["saved_para"]
    momentum_buffer,  \* self.state[p]["momentum_buffer"]
    saved_update,     \* self.state['saved_update']
    op,               \* the last operation called
    arg,              \* its argument (set_gradient)
    ret,              \* its return value (get_update, get_gradient)
    err,              \* the exception it raised, or "none"
    steps,            \* per parameter: refreshes of its momentum buffer so far
    gseen             \* per parameter: the gradients those refreshes blended in

clientVars == <<variant, momentum, set_to_none, model_set, loss_set, iter_set,
                data, requires_grad, grad, saved_grad, saved_para,
                momentum_buffer, saved_update, op, arg, ret, err, steps, gseen>>

AllNone == [p \in P |-> None]

\* TorchClient.__init__ / ClientWithMomentum.__init__: no model, no
\* optimizer, no loss; running = {} and state = defaultdict(dict).
ClientInit(v) ==
    /\ variant = v
    /\ momentum \in (IF v = "momentum" THEN MomentumVals ELSE {Zero})
    /\ set_to_none \in BOOLEAN
    /\ model_set = FALSE
    /\ loss_set = FALSE
    /\ iter_set = FALSE
    /\ data = AllNone
    /\ requires_grad = [p \in P |-> FALSE]
    /\ grad = AllNone
    /\ saved_grad = AllNone
    /\ saved_para = AllNone
    /\ momentum_buffer = AllNone
    /\ saved_update = EmptyDict
    /\ op = "init"
    /\ arg = None
    /\ ret = None
    /\ err = "none"
    /\ steps = [p \in P |-> 0]
    /\ gseen = [p \in P |-> {}]

\* What a call leaves behind for its caller.
Returns(o, e, r, a) == op' = o /\ err' = e /\ ret' = r /\ arg' = a

\* ---------------------------------------------------------- flatten helpers
RECURSIVE Cat(_, _)
\* torch.cat of the tensors ts[p] for the parameters p of the sequence ps.
Cat(ts, ps) == IF ps = <<>> THEN <<>> ELSE ts[Head(ps)] \o Cat(ts, Tail(ps))

RECURSIVE Filter(_, _)
Filter(ps, keep) ==
    IF ps = <<>> THEN <<>>
    ELSE (IF keep[Head(ps)] THEN <<Head(ps)>> ELSE <<>>) \o Filter(Tail(ps), keep)

ParamOrder == [p \in P |-> p]

\* --------------------------------------------------------- client internals
\* optimizer.zero_grad(): a gradient that exists is zeroed in place, or
\* dropped when the installed torch defaults to set_to_none=True.
zero_grad(g) ==
    [p \in P |-> IF g[p] = None THEN None
                 ELSE IF set_to_none THEN None ELSE Zeros(Numel[p])]

\* loss.backward() raises when no parameter requires a gradient.
backward_ok(rg) == \E p \in P : rg[p]

\* loss.backward(): the new gradient gnew[p] is accumulated into p.grad of
\* every parameter that requires a gradient; the others are left alone.
backward(g, rg, gnew) ==
    [p \in P |-> IF ~rg[p] THEN g[p]
                 ELSE IF g[p] = None THEN gnew[p] ELSE TAdd(g[p], gnew[p])]

\* TorchClient._save_grad: parameters without a gradient are skipped.
save_grad_plain(g, sg) ==
    [p \in P |-> IF g[p] = None THEN sg[p] ELSE g[p]]

\* A momentum buffer without dampening: buffer * m + grad.
save_grad_buffer_undamped(g, buf, m) ==
    [p \in P |-> IF g[p] = None THEN buf[p]
                 ELSE IF buf[p] = None THEN g[p]
                 ELSE TAdd(TScale(buf[p], m), g[p])]

\* ClientWithMomentum._save_grad, the buffer: the first gradient seeds it,
\* later ones are blended in, buffer * m + grad * (1 - m).
save_grad_buffer(g, buf, m) ==
    [p \in P |-> IF g[p] = None THEN buf[p]
                 ELSE IF buf[p] = None THEN g[p]
                 ELSE TAdd(TScale(buf[p], m), TScale(g[p], FSub(FInt(1), m)))]

\* ClientWithMomentum._save_grad, p.grad: p.grad.mul_(1 - m) scales the
\* gradient in place whenever the buffer already exists.
save_grad_grad(g, buf, m) ==
    [p \in P |-> IF g[p] = None \/ buf[p] = None THEN g[p]
                 ELSE TScale(g[p], FSub(FInt(1), m))]

\* apply_gradient -> SGD.step(): p.data -= lr * p.grad where a gradient exists.
sgd_step(d, g) ==
    [p \in P |-> IF g[p] = None THEN d[p] ELSE TSub(d[p], TScale(g[p], LR))]

\* TorchClient._save_para: parameters with requires_grad False are skipped.
save_para(d, rg, sp) ==
    [p \in P |-> IF ~rg[p] THEN sp[p] ELSE d[p]]

\* The parameters _get_para walks: those whose p.grad is not None.
get_para_params(g) == Filter(ParamOrder, [p \in P |-> g[p] # None])

\* _get_para(current=...): "RuntimeError" for torch.cat of an empty list,
\* "KeyError" when a listed parameter has no "saved_para".
get_para_err(g, sp, current) ==
    IF get_para_params(g) = <<>> THEN "RuntimeError"
    ELSE IF ~current /\ \E i \in 1..Len(get_para_params(g)) :
                            sp[get_para_params(g)[i]] = None
    THEN "KeyError"
    ELSE "none"

get_para(d, g, sp, current) ==
    Cat(IF current THEN d ELSE sp, get_para_params(g))

\* The update computed at the end of local_training.
compute_update(d, g, sp) ==
    TSub(get_para(d, g, sp, TRUE), get_para(d, g, sp, FALSE))

compute_update_err(g, sp) ==
    IF get_para_err(g, sp, TRUE) # "none" THEN get_para_err(g, sp, TRUE)
    ELSE get_para_err(g, sp, FALSE)

\* One pass of the batch loop of local_training on a batch that yields the
\* gradient gnew: zero_grad, backward, apply_gradient.
batch_step(gnew, d, g, rg) ==
    One({[data |-> sgd_step(d, g2), grad |-> g2, err |-> "none"] :
            g2 \in {backward(zero_grad(g), rg, gnew)}})

RECURSIVE train_batches(_, _, _, _)
\* The batch loop of local_training over the gradients the batches yield.
\* The result is the state the loop leaves, with the exception that ended
\* it early, if any: the loss function is missing, or backward() finds no
\* parameter that requires a gradient.
train_batches(batches, d, g, rg) ==
    IF batches = <<>> THEN [data |-> d, grad |-> g, err |-> "none"]
    ELSE IF ~loss_set
    THEN [data |-> d, grad |-> zero_grad(g), err |-> "AttributeError"]
    ELSE IF ~backward_ok(rg)
    THEN [data |-> d, grad |-> zero_grad(g), err |-> "RuntimeError"]
    ELSE One({train_batches(Tail(batches), s.data, s.grad, rg) :
                 s \in {batch_step(Head(batches), d, g, rg)}})

RECURSIVE scatter(_, _, _, _)
\* The loop of set_gradient over the parameters from p on, beg elements of
\* the input consumed: "AttributeError" on a parameter whose grad is None,
\* "RuntimeError" when the slice cannot take the gradient's shape.  The
\* parameters before the failing one keep their new gradient.
scatter(gradient, p, beg, g) ==
    IF p > Len(Numel) THEN [grad |-> g, err |-> "none"]
    ELSE IF g[p] = None THEN [grad |-> g, err |-> "AttributeError"]
    ELSE LET end == beg + Len(g[p])
             x == SubSeq(gradient, beg + 1, IF end > Len(gradient) THEN Len(gradient) ELSE end)
         IN IF Len(x) # Len(g[p]) THEN [grad |-> g, err |-> "RuntimeError"]
            ELSE scatter(gradient, p + 1, end, [g EXCEPT ![p] = x])

\* The buffer get_gradient flattens: "saved_grad", or "momentum_buffer" for
\* the momentum variant.
saved_grad_slot == IF variant = "momentum" THEN momentum_buffer ELSE saved_grad

\* _get_saved_grad walks every parameter and raises KeyError on a missing key.
get_saved_grad_err == IF \E p \in P : saved_grad_slot[p] = None THEN "KeyError" ELSE "none"
get_saved_grad == Cat(saved_grad_slot, ParamOrder)

\* -------------------------------------------------------- aggregator state
VARIABLES
    agg_momentum,     \* Autogm.momentum: None or the last aggregate
    agg_pc,           \* where the running __call__ is: "idle", "loop", "done"
    updates,          \* the list of updates of the running call
    maxiter,          \* its maxiter argument
    ftol,             \* its ftol argument, a rational <<n, d>>
    loc,              \* its locals: alpha, median, global_obj, i, ...
    agg_ret,          \* what the last call returned
    agg_err           \* the exception the last call raised, or "none"

aggVars == <<agg_momentum, agg_pc, updates, maxiter, ftol, loc, agg_ret, agg_err>>

vars == <<clientVars, aggVars>>

\* ----------------------------------------------------------- client actions
cfgVars == <<variant, momentum, set_to_none>>
paramVars == <<data, requires_grad, grad>>
slotVars == <<saved_grad, saved_para, momentum_buffer>>
histVars == <<steps, gseen>>

\* set_model(model, opt, lr): a deep copy of the model and a fresh optimizer
\* over its parameters.  The copies are new objects: they carry no gradient
\* and self.state, keyed by parameter object, holds nothing for them.
set_model(d, rg) ==
    /\ model_set' = TRUE
    /\ data' = d
    /\ requires_grad' = rg
    /\ grad' = AllNone
    /\ saved_grad' = AllNone
    /\ saved_para' = AllNone
    /\ momentum_buffer' = AllNone
    /\ steps' = [p \in P |-> 0]
    /\ gseen' = [p \in P |-> {}]
    /\ Returns("set_model", "none", None, None)
    /\ UNCHANGED <<cfgVars, loss_set, iter_set, saved_update, aggVars>>

\* detach_model(lr): as set_model, from the client's own model.
detach_model ==
    /\ IF model_set
       THEN /\ grad' = AllNone
            /\ saved_grad' = AllNone
            /\ saved_para' = AllNone
            /\ momentum_buffer' = AllNone
            /\ steps' = [p \in P |-> 0]
            /\ gseen' = [p \in P |-> {}]
            /\ Returns("detach_model", "none", None, None)
       ELSE /\ UNCHANGED <<grad, slotVars, histVars>>
            /\ Returns("detach_model", "AttributeError", None, None)
    /\ UNCHANGED <<cfgVars, model_set, loss_set, iter_set, data, requires_grad,
                   saved_update, aggVars>>

\* set_loss(loss_func): only 'crossentropy' is implemented.
set_loss(name) ==
    /\ IF name = "crossentropy"
       THEN loss_set' = TRUE /\ Returns("set_loss", "none", None, None)
       ELSE UNCHANGED loss_set /\ Returns("set_loss", "NotImplementedError", None, None)
    /\ UNCHANGED <<cfgVars, model_set, iter_set, paramVars, slotVars,
                   saved_update, histVars, aggVars>>

\* reset_data_loader(): a fresh iterator over the data loader the caller
\* attached to the client.
reset_data_loader ==
    /\ iter_set' = TRUE
    /\ Returns("reset_data_loader", "none", None, None)
    /\ UNCHANGED <<cfgVars, model_set, loss_set, paramVars, slotVars,
                   saved_update, histVars, aggVars>>

\* set_para(model): load_state_dict copies the values into the parameters;
\* gradients and requires_grad flags stay.
set_para(d) ==
    /\ IF model_set
       THEN data' = d /\ Returns("set_para", "none", None, None)
       ELSE UNCHANGED data /\ Returns("set_para", "AttributeError", None, None)
    /\ UNCHANGED <<cfgVars, model_set, loss_set, iter_set, requires_grad, grad,
                   slotVars, saved_update, histVars, aggVars>>

\* The caller freezes or unfreezes a parameter between rounds
\* (p.requires_grad, which _save_para reads).
set_requires_grad(p, b) ==
    /\ model_set
    /\ requires_grad[p] # b
    /\ requires_grad' = [requires_grad EXCEPT ![p] = b]
    /\ Returns("set_requires_grad", "none", None, None)
    /\ UNCHANGED <<cfgVars, model_set, loss_set, iter_set, data, grad,
                   slotVars, saved_update, histVars, aggVars>>

\* compute_gradient(): next batch, zero_grad, forward, loss, backward, then
\* _save_grad of the client's variant.  gnew is the gradient the batch yields.
compute_gradient(gnew) ==
    /\ variant = "momentum" => \A p \in P : steps[p] < MaxSteps
    /\ IF ~iter_set
       THEN /\ Returns("compute_gradient", "KeyError", None, None)
            /\ UNCHANGED <<grad, slotVars, histVars>>
       ELSE IF ~model_set
       THEN /\ Returns("compute_gradient", "AttributeError", None, None)
            /\ UNCHANGED <<grad, slotVars, histVars>>
       ELSE IF ~loss_set
       THEN /\ grad' = zero_grad(grad)
            /\ Returns("compute_gradient", "AttributeError", None, None)
            /\ UNCHANGED <<slotVars, histVars>>
       ELSE IF ~backward_ok(requires_grad)
       THEN /\ grad' = zero_grad(grad)
            /\ Returns("compute_gradient", "RuntimeError", None, None)
            /\ UNCHANGED <<slotVars, histVars>>
       ELSE \E g2 \in {backward(zero_grad(grad), requires_grad, gnew)} :
               /\ IF variant = "momentum"
                  THEN /\ momentum_buffer' = save_grad_buffer(g2, momentum_buffer, momentum)
                       /\ grad' = save_grad_grad(g2, momentum_buffer, momentum)
                       /\ steps' = [p \in P |-> IF g2[p] = None THEN steps[p]
                                                ELSE steps[p] + 1]
                       /\ gseen' = [p \in P |-> IF g2[p] = None THEN gseen[p]
                                                ELSE gseen[p] \cup {g2[p]}]
                       /\ UNCHANGED <<saved_grad, saved_para>>
                  ELSE /\ saved_grad' = save_grad_plain(g2, saved_grad)
                       /\ grad' = g2
                       /\ UNCHANGED <<saved_para, momentum_buffer, histVars>>
               /\ Returns("compute_gradient", "none", None, None)
    /\ UNCHANGED <<cfgVars, model_set, loss_set, iter_set, data, requires_grad,
                   saved_update, aggVars>>

\* local_training(num_rounds, use_actor, data_batches): snapshot, the batch
\* loop, then update = current parameters - snapshot, saved as the update.
\* An exception leaves what was done before it.
local_training(batches) ==
    /\ IF ~model_set
       THEN /\ Returns("local_training", "AttributeError", None, None)
            /\ UNCHANGED <<data, grad, saved_para, saved_update>>
       ELSE \E sp2 \in {save_para(data, requires_grad, saved_para)} :
            \E r \in {train_batches(batches, data, grad, requires_grad)} :
            \E e \in {IF r.err # "none" THEN r.err
                      ELSE compute_update_err(r.grad, sp2)} :
               /\ saved_para' = sp2
               /\ data' = r.data
               /\ grad' = r.grad
               /\ IF e = "none"
                  THEN saved_update' = Tensor(compute_update(r.data, r.grad, sp2))
                  ELSE UNCHANGED saved_update
               /\ Returns("local_training", e, None, None)
    /\ UNCHANGED <<cfgVars, model_set, loss_set, iter_set, requires_grad,
                   saved_grad, momentum_buffer, histVars, aggVars>>

\* get_gradient(): the flattened saved gradient buffer.
get_gradient ==
    /\ IF ~model_set
       THEN Returns("get_gradient", "AttributeError", None, None)
       ELSE IF get_saved_grad_err # "none"
       THEN Returns("get_gradient", get_saved_grad_err, None, None)
       ELSE Returns("get_gradient", "none", get_saved_grad, None)
    /\ UNCHANGED <<cfgVars, model_set, loss_set, iter_set, paramVars, slotVars,
                   saved_update, histVars, aggVars>>

\* set_gradient(gradient): scatter the flat vector onto p.grad.data.
set_gradient(gradient) ==
    /\ IF ~model_set
       THEN /\ Returns("set_gradient", "AttributeError", None, gradient)
            /\ UNCHANGED grad
       ELSE \E r \in {scatter(gradient, 1, 0, grad)} :
               /\ grad' = r.grad
               /\ Returns("set_gradient", r.err, None, gradient)
    /\ UNCHANGED <<cfgVars, model_set, loss_set, iter_set, data, requires_grad,
                   slotVars, saved_update, histVars, aggVars>>

\* get_update(): torch.nan_to_num of the saved update; nan_to_num of the
\* dict a client without a saved update holds raises TypeError.
get_update ==
    /\ IF saved_update.kind = "tensor"
       THEN Returns("get_update", "none", nan_to_num(saved_update.v), None)
       ELSE Returns("get_update", "TypeError", None, None)
    /\ UNCHANGED <<cfgVars, model_set, loss_set, iter_set, paramVars, slotVars,
                   saved_update, histVars, aggVars>>

\* apply_gradient(): optimizer.step().
apply_gradient ==
    /\ IF model_set
       THEN data' = sgd_step(data, grad) /\ Returns("apply_gradient", "none", None, None)
       ELSE UNCHANGED data /\ Returns("apply_gradient", "AttributeError", None, None)
    /\ UNCHANGED <<cfgVars, model_set, loss_set, iter_set, requires_grad, grad,
                   slotVars, saved_update, histVars, aggVars>>

\* Inputs the actions draw from.
RECURSIVE SeqsUpTo(_, _)
\* The sequences over S of length at most n.
SeqsUpTo(S, n) ==
    IF n = 0 THEN {<<>>}
    ELSE SeqsUpTo(S, n - 1) \cup
         {<<x>> \o t : x \in S, t \in {u \in SeqsUpTo(S, n - 1) : Len(u) = n - 1}}

BatchSeqs == SeqsUpTo(BatchTensors, MaxBatches)
TotalNumel == Len(Cat([p \in P |-> Zeros(Numel[p])], ParamOrder))
GradientInputs ==
    UNION {Tensors(GradVals, n) : n \in {TotalNumel - 1, TotalNumel}}
      \cup (IF op = "get_gradient" /\ err = "none" THEN {ret} ELSE {})

AggIdle ==
    /\ agg_momentum = None
    /\ agg_pc = "idle"
    /\ updates = <<>>
    /\ maxiter = 0
    /\ ftol = Zero
    /\ loc = None
    /\ agg_ret = None
    /\ agg_err = "none"

\* A plain TorchClient through rounds of local training: the caller sets
\* the model up, loads parameters, freezes or unfreezes them, trains and
\* reads the update.
NextUpdate ==
    \/ \E d \in ModelTensors, rg \in [P -> BOOLEAN] : set_model(d, rg)
    \/ detach_model
    \/ \E name \in {"crossentropy", "mse"} : set_loss(name)
    \/ \E d \in ModelTensors : set_para(d)
    \/ \E p \in P, b \in BOOLEAN : set_requires_grad(p, b)
    \/ \E batches \in BatchSeqs : local_training(batches)
    \/ get_update

\* A client (and an aggregator) as constructed.
InitPlain == ClientInit("plain") /\ AggIdle
InitMomentum == ClientInit("momentum") /\ AggIdle

SpecUpdate == InitPlain /\ [][NextUpdate]_vars

\* A plain TorchClient through single gradient steps: the caller computes
\* gradients, reads them, writes them back and applies them.
NextGrad ==
    \/ \E d \in ModelTensors, rg \in [P -> BOOLEAN] : set_model(d, rg)
    \/ \E name \in {"crossentropy", "mse"} : set_loss(name)
    \/ reset_data_loader
    \/ \E p \in P, b \in BOOLEAN : set_requires_grad(p, b)
    \/ \E gnew \in GradTensors : compute_gradient(gnew)
    \/ get_gradient
    \/ \E gradient \in GradientInputs : set_gradient(gradient)
    \/ apply_gradient

SpecGrad == InitPlain /\ [][NextGrad]_vars

\* A ClientWithMomentum through gradient steps: the caller computes
\* gradients and reads the momentum buffer.
NextMomentum ==
    \/ \E d \in ModelTensors, rg \in [P -> BOOLEAN] : set_model(d, rg)
    \/ \E name \in {"crossentropy", "mse"} : set_loss(name)
    \/ reset_data_loader
    \/ \E p \in P, b \in BOOLEAN : set_requires_grad(p, b)
    \/ \E gnew \in GradTensors : compute_gradient(gnew)
    \/ get_gradient

SpecMomentum == InitMomentum /\ [][NextMomentum]_vars

\* --------------------------------------------------------------- aggregator
\* The aggregator is modelled on update vectors <<x>> of dimension 1 with
\* small natural entries (what get_update hands over is finite), in exact rational
\* arithmetic <<n, d>>, d > 0, in lowest terms: float rounding is not
\* modelled.

\* Most participants of one aggregation call.
MaxN == 4
\* Entries of the updates handed to the aggregator: an outlier at one end,
\* the others close together.
UpdateVals == {0, 3, 4}
\* Largest maxiter argument.
MaxIter == 3

\* ftol arguments: relative tolerances, positive.
FtolVals == {<<1, 1000>>, <<1, 2>>}

QNorm(n, d) == LET g == GCD(Abs(n), d) IN <<n \div g, d \div g>>
QInt(n) == <<n, 1>>
QAdd(x, y) == QNorm(x[1] * y[2] + y[1] * x[2], x[2] * y[2])
QSub(x, y) == QNorm(x[1] * y[2] - y[1] * x[2], x[2] * y[2])
QMul(x, y) == QNorm(x[1] * y[1], x[2] * y[2])
QDivInt(x, k) == QNorm(x[1], x[2] * k)
QLess(x, y) == x[1] * y[2] < y[1] * x[2]
QAbs(x) == <<Abs(x[1]), x[2]>>
QMax(x, y) == IF QLess(x, y) THEN y ELSE x

RECURSIVE QSum(_)
\* sum() of a sequence of rationals.
QSum(xs) == IF xs = <<>> THEN QInt(0) ELSE QAdd(Head(xs), QSum(Tail(xs)))

\* _compute_euclidean_distance(v1, v2) = (v1 - v2).norm(), in dimension 1.
compute_euclidean_distance(v1, v2) == Abs(v1[1] - v2[1])

\* Autogm.geometric_median_objective: sum of alpha * distance(median, p).
geometric_median_objective(median, points, alphas) ==
    QSum([k \in 1..Len(points) |->
             QMul(alphas[k], QInt(compute_euclidean_distance(median, points[k])))])

\* np.linalg.norm(alpha) ** 2.
norm_squared(alphas) == QSum([k \in 1..Len(alphas) |-> QMul(alphas[k], alphas[k])])

\* obj + lamb * norm(alpha) ** 2 / 2.
regularized(obj, lamb, alphas) ==
    QAdd(obj, QDivInt(QMul(QInt(lamb), norm_squared(alphas)), 2))

\* Geomed.__call__(points, weights), for at least one point: a point that
\* minimizes the weighted sum of distances.  In dimension 1 some input point
\* does; of the minimizing input points the least is taken.
gm_agg(points, weights) ==
    One({points[CHOOSE k \in best : \A j \in best : points[k][1] <= points[j][1]] :
            best \in {{k \in 1..Len(points) :
                          \A j \in 1..Len(points) : ~QLess(cost[j], cost[k])} :
                      cost \in {[k \in 1..Len(points) |->
                          geometric_median_objective(points[k], points, weights)]}}})

\* What the solver may do with no point at all, which its contract excludes.
GmEmptyOutcomes == {"raise", "return"}
\* The value it then returns, if it returns: some vector, none of the inputs.
NoMedian == <<-1>>

\* Python's order on the tuples (index, distance) that enumerate() yields.
tuple_leq(a, b) == a[1] < b[1] \/ (a[1] = b[1] /\ a[2] <= b[2])

RECURSIVE insert_sorted(_, _)
insert_sorted(x, xs) ==
    IF xs = <<>> THEN <<x>>
    ELSE IF tuple_leq(x, Head(xs)) THEN <<x>> \o xs
    ELSE <<Head(xs)>> \o insert_sorted(x, Tail(xs))

RECURSIVE sorted(_)
\* sorted(items, key=lambda x: x): a stable sort by the item itself.
sorted(items) ==
    IF items = <<>> THEN <<>>
    ELSE One({insert_sorted(items[Len(items)], rest) :
                 rest \in {sorted(SubSeq(items, 1, Len(items) - 1))}})

\* idxs = [x for x, _ in sorted(enumerate(distance), key=lambda x: x)].
scan_order(distance) ==
    One({[k \in 1..Len(distance) |-> items[k][1]] :
            items \in {sorted([k \in 1..Len(distance) |-> <<k, distance[k]>>])}})

RECURSIVE prefix_sum(_, _, _)
\* sum([distance[i] for i in idxs[:n]]).
prefix_sum(distance, idxs, n) ==
    IF n = 0 THEN 0 ELSE prefix_sum(distance, idxs, n - 1) + distance[idxs[n]]

\* The initial eta_optimal (1e16): every scan of a nonempty list replaces it,
\* since its first candidate exceeds the first distance by lamb > 0.
EtaUnset == <<1, 0>>

RECURSIVE threshold_search(_, _, _, _, _)
\* The loop over p (here p = 1..len(idxs)): candidate eta of the prefix of
\* size p; stop at the first p whose eta is below the distance at p.
threshold_search(distance, idxs, lamb, p, eta_optimal) ==
    IF p > Len(idxs) THEN eta_optimal
    ELSE One({IF QLess(QSub(eta, QInt(distance[idxs[p]])), QInt(0))
              THEN eta_optimal
              ELSE threshold_search(distance, idxs, lamb, p + 1, eta) :
                 eta \in {QDivInt(QInt(prefix_sum(distance, idxs, p) + lamb), p)}})

\* alpha = [max(eta_optimal - d, 0) / lamb for d in distance].
new_alpha(distance, eta_optimal, lamb) ==
    [k \in 1..Len(distance) |->
        QDivInt(QMax(QSub(eta_optimal, QInt(distance[k])), QInt(0)), lamb)]

\* The first half of a loop iteration: distances to the median, the scan
\* order, the threshold and the new weights.
weights_update(ups, median) ==
    One(UNION UNION
        {{{[distance |-> distance, idxs |-> idxs, eta_optimal |-> eta_optimal,
            alpha |-> new_alpha(distance, eta_optimal, Len(ups))] :
              eta_optimal \in {threshold_search(distance, idxs, Len(ups), 1, EtaUnset)}} :
              idxs \in {scan_order(distance)}} :
              distance \in {[k \in 1..Len(ups) |->
                                compute_euclidean_distance(ups[k], median)]}})

\* The starting weights without the division by len(updates).
uniform_alpha_unnormalized(n) == [k \in 1..n |-> QInt(1)]

\* alpha = np.ones(len(updates)) / len(updates).
uniform_alpha(n) == [k \in 1..n |-> QDivInt(QInt(1), n)]

\* abs(prev_global_obj - global_obj) < ftol * global_obj.
converged(prev_global_obj, global_obj, tol) ==
    QLess(QAbs(QSub(prev_global_obj, global_obj)), QMul(tol, global_obj))

\* The locals after the lines before the loop: uniform weights, the first
\* median and its objective.  median is what the solver returned.
call_start(ups, median) ==
    One({[alpha |-> alpha, median |-> median,
          global_obj |-> regularized(geometric_median_objective(median, ups, alpha),
                                     Len(ups), alpha),
          i |-> 0, distance |-> [k \in 1..Len(ups) |-> 0], idxs |-> <<>>,
          eta_optimal |-> EtaUnset, broke |-> FALSE, medians |-> <<median>>,
          ties |-> FALSE] :
            alpha \in {uniform_alpha(Len(ups))}})

\* Two participants at the same distance from the median.
has_ties(distance) ==
    \E j, k \in 1..Len(distance) : j < k /\ distance[j] = distance[k]

\* The locals after one more loop iteration.  w is the weights update of
\* the iteration and median what the solver returned for the new weights.
call_iterate(ups, tol, l, w, median) ==
    One({[alpha |-> w.alpha, median |-> median, global_obj |-> global_obj,
          i |-> l.i + 1, distance |-> w.distance, idxs |-> w.idxs,
          eta_optimal |-> w.eta_optimal,
          broke |-> converged(l.global_obj, global_obj, tol),
          medians |-> Append(l.medians, median),
          ties |-> l.ties \/ has_ties(w.distance)] :
            global_obj \in {regularized(
                geometric_median_objective(median, ups, w.alpha), Len(ups), w.alpha)}})

\* for i in range(maxiter): the loop goes on.
loop_continues(l, mi) == ~l.broke /\ l.i < mi

\* The median of the first solver call instead of the last.
return_value_first(l) == l.medians[1]

\* self.momentum = median; return self.momentum.
return_value(l) == l.median

\* torch.zeros_like(updates[0]).
zeros_like(u) == [k \in 1..Len(u) |-> 0]

\* The start of Autogm.__call__, up to the loop.  With no update at all and
\* no momentum yet, updates[0] raises IndexError; with no update and a
\* momentum left by an earlier call, the solver is handed an empty list.
Call(ups, mi, tol) ==
    /\ agg_pc = "idle"
    /\ updates' = ups
    /\ maxiter' = mi
    /\ ftol' = tol
    /\ agg_ret' = None
    /\ IF agg_momentum = None /\ ups = <<>>
       THEN /\ agg_pc' = "raised"
            /\ agg_err' = "IndexError"
            /\ UNCHANGED <<agg_momentum, loc>>
       ELSE /\ agg_momentum' = IF agg_momentum = None THEN zeros_like(ups[1])
                               ELSE agg_momentum
            /\ IF ups = <<>>
               THEN \E out \in GmEmptyOutcomes :
                       IF out = "raise"
                       THEN /\ agg_pc' = "raised"
                            /\ agg_err' = "SolverError"
                            /\ UNCHANGED loc
                       ELSE /\ agg_pc' = "loop"
                            /\ agg_err' = "none"
                            /\ loc' = call_start(ups, NoMedian)
               ELSE \E median \in {gm_agg(ups, uniform_alpha(Len(ups)))} :
                    /\ agg_pc' = "loop"
                    /\ agg_err' = "none"
                    /\ loc' = call_start(ups, median)
    /\ UNCHANGED clientVars

\* One iteration of the loop of Autogm.__call__.
Iterate ==
    /\ agg_pc = "loop"
    /\ loop_continues(loc, maxiter)
    /\ \E w \in {weights_update(updates, loc.median)} :
          IF updates = <<>>
          THEN \E out \in GmEmptyOutcomes :
                  IF out = "raise"
                  THEN /\ agg_pc' = "raised"
                       /\ agg_err' = "SolverError"
                       /\ UNCHANGED loc
                  ELSE /\ loc' = call_iterate(updates, ftol, loc, w, NoMedian)
                       /\ UNCHANGED <<agg_pc, agg_err>>
          ELSE \E median \in {gm_agg(updates, w.alpha)} :
               /\ loc' = call_iterate(updates, ftol, loc, w, median)
               /\ UNCHANGED <<agg_pc, agg_err>>
    /\ UNCHANGED <<agg_momentum, updates, maxiter, ftol, agg_ret, clientVars>>

\* The end of Autogm.__call__: the loop is over, by break or by exhaustion;
\* the median becomes the momentum and is returned.
Return ==
    /\ agg_pc = "loop"
    /\ ~loop_continues(loc, maxiter)
    /\ agg_momentum' = return_value(loc)
    /\ agg_ret' = return_value(loc)
    /\ agg_pc' = "done"
    /\ UNCHANGED <<updates, maxiter, ftol, loc, agg_err, clientVars>>

\* The call is over, by return or by exception: its locals are gone and of
\* the aggregator only self.momentum remains for the next round.
EndRound ==
    /\ agg_pc \in {"done", "raised"}
    /\ agg_pc' = "idle"
    /\ updates' = <<>>
    /\ maxiter' = 0
    /\ ftol' = Zero
    /\ loc' = None
    /\ agg_ret' = None
    /\ agg_err' = "none"
    /\ UNCHANGED <<agg_momentum, clientVars>>

\* Lists of updates handed to the aggregator.
UpdateLists == SeqsUpTo({<<x>> : x \in UpdateVals}, MaxN)

AggNext ==
    \/ \E ups \in UpdateLists, mi \in 0..MaxIter, tol \in FtolVals : Call(ups, mi, tol)
    \/ Iterate
    \/ Return
    \/ EndRound

\* An Autogm aggregator called round after round.
SpecAgg == InitPlain /\ [][AggNext]_vars

RECURSIVE run_loop(_, _, _, _)
\* The loop of Autogm.__call__ on at least one update, run to its end.
run_loop(ups, mi, tol, l) ==
    IF ~loop_continues(l, mi) THEN l
    ELSE One(UNION UNION
             {{{run_loop(ups, mi, tol, l2) :
                   l2 \in {call_iterate(ups, tol, l, w, median)}} :
                   median \in {gm_agg(ups, w.alpha)}} :
                   w \in {weights_update(ups, l.median)}})

\* The locals Autogm.__call__ ends with on at least one update.
autogm_run(ups, mi, tol) ==
    One(UNION {{run_loop(ups, mi, tol, l) : l \in {call_start(ups, median)}} :
                  median \in {gm_agg(ups, uniform_alpha(Len(ups)))}})

\* ------------------------------------------------------------------ claims
\* The entries of the saved update, once one is saved.
SavedEntries == 1..Len(saved_update.v)

C2_GetUpdateNeverRaises == op = "get_update" => err = "none"

\* The update C6 describes: one entry per element of every trainable
\* parameter, the value at the end of the call minus the value at its start.
C6_Expected(before, after, rg) ==
    Cat([p \in P |-> TSub(after[p], before[p])], Filter(ParamOrder, rg))

\* C6: after every completed local_training call the saved update has one
\* entry per trainable parameter element, each the parameter's value at the
\* end of the call minus its value at the start of that same call.
C6_UpdateIsPostMinusPre ==
    [][(op' = "local_training" /\ err' = "none") =>
          saved_update' = Tensor(C6_Expected(data, data', requires_grad))]_vars

\* A gradient has been computed and saved for the current model.
GradientComputed == \E p \in P : saved_grad_slot[p] # None

\* C3: once a gradient has been computed, get_gradient completes without
\* error, and set_gradient(get_gradient()) completes without error and
\* leaves every parameter's gradient as it was.
C3_GradientRoundTrip ==
    [][/\ (op' = "get_gradient" /\ GradientComputed') => err' = "none"
       /\ (/\ op = "get_gradient" /\ err = "none" /\ GradientComputed
           /\ op' = "set_gradient" /\ arg' = ret)
             => (err' = "none" /\ grad' = grad)]_vars

RECURSIVE FPow(_, _)
\* x to the power k, k >= 0.
FPow(x, k) == IF k = 0 THEN FInt(1) ELSE FMul(x, FPow(x, k - 1))

\* Parameter p's momentum buffer has been refreshed k >= 1 times, each time
\* with the same gradient g.
ConstantGradient(p, g) == steps[p] >= 1 /\ gseen[p] = {g}

\* C9 (as claimed): with the same gradient g computed at every step, the
\* momentum buffer after k >= 1 steps equals g * (1 - (1-m)^k).
C9_GeometricBuffer ==
    \A p \in P : \A g \in gseen[p] :
        ConstantGradient(p, g) =>
            momentum_buffer[p] =
                TScale(g, FSub(FInt(1), FPow(FSub(FInt(1), momentum), steps[p])))

\* C9 (amended): with the same gradient g computed at every step, the
\* momentum buffer after k >= 1 steps equals g: the first step stores g and
\* every later step blends g into a buffer that already equals g.
C9_BufferIsGradient ==
    \A p \in P : \A g \in gseen[p] :
        ConstantGradient(p, g) => momentum_buffer[p] = g

\* C9 witness: a buffer seeded by g and then blended with the same g at
\* least once, with a nonzero momentum factor.
C9_Witness ==
    \E p \in P : \E g \in gseen[p] :
        ConstantGradient(p, g) /\ steps[p] >= 2 /\ momentum # Zero

\* The reorderings of a list of n updates.
Perms(n) == {f \in [1..n -> 1..n] : \A j, k \in 1..n : f[j] = f[k] => j = k}
Permuted(ups, f) == [k \in 1..Len(ups) |-> ups[f[k]]]
\* The scan order is ascending by distance, equal distances by index.
Ascending(distance, idxs) ==
    \A j, k \in 1..Len(idxs) :
        j < k => \/ distance[idxs[j]] < distance[idxs[k]]
                 \/ distance[idxs[j]] = distance[idxs[k]] /\ idxs[j] < idxs[k]
AllEqual(ups) == \A k \in 1..Len(ups) : ups[k] = ups[1]
Last(xs) == xs[Len(xs)]

\* C10: in every outer iteration the threshold search scans the participants
\* in ascending order of their distance to the median, equal distances in
\* index order, so that each prefix holds the smallest distances.
C10_ScanAscendingByDistance ==
    (agg_pc \in {"loop", "done"} /\ loc.i >= 1) => Ascending(loc.distance, loc.idxs)

\* C4: with pairwise distinct distances in every iteration, a call on any
\* reordering of the updates returns the same aggregate and gives every
\* update the weight it gets in the original order.
C4_PermutationInvariance ==
    (agg_pc = "done" /\ updates # <<>> /\ ~loc.ties) =>
        \A f \in Perms(Len(updates)) :
            \A r \in {autogm_run(Permuted(updates, f), maxiter, ftol)} :
                ~r.ties => /\ return_value(r) = agg_ret
                           /\ \A k \in 1..Len(updates) : r.alpha[k] = loc.alpha[f[k]]

\* C5: no call with zero participants returns an aggregate: every such
\* call, first or later, ends in an error.
C5_ZeroParticipantsRejected ==
    (agg_pc \in {"done", "raised"} /\ updates = <<>>) =>
        agg_pc = "raised" /\ agg_ret = None

\* C7: when all N >= 1 updates equal v, the median is v throughout, the
\* weights stay equal, the loop stops as converged at its first iteration
\* (if it is allowed one), and v is returned.
C7_Homogeneity ==
    (agg_pc \in {"loop", "done"} /\ updates # <<>> /\ AllEqual(updates)) =>
        /\ loc.median = updates[1]
        /\ \A k \in 1..Len(updates) : loc.alpha[k] = loc.alpha[1]
        /\ loc.i >= 1 => loc.i = 1 /\ loc.broke
        /\ agg_pc = "done" => /\ agg_ret = updates[1]
                              /\ agg_err = "none"
                              /\ maxiter >= 1 => loc.broke

\* Several identical nonzero updates were aggregated and the loop stopped
\* as converged.
C7_Witness ==
    /\ agg_pc = "done"
    /\ Len(updates) >= 2 /\ AllEqual(updates) /\ updates[1] # zeros_like(updates[1])
    /\ loc.broke
    /\ agg_ret = updates[1]

\* One step of a call on N >= 1 updates.
C8_Step ==
    (agg_pc = "loop" /\ updates # <<>>) =>
        /\ agg_pc' \in {"loop", "done"}
        /\ agg_pc' = "loop" =>
              /\ loc.i < maxiter /\ ~loc.broke
              /\ loc'.i = loc.i + 1
              /\ loc'.broke <=> converged(loc.global_obj, loc'.global_obj, ftol)
              /\ Len(loc'.medians) = Len(loc.medians) + 1
        /\ agg_pc' = "done" =>
              /\ loc.i <= maxiter
              /\ loc.broke \/ loc.i = maxiter
              /\ agg_err' = "none"
              /\ agg_ret' = Last(loc.medians)
              /\ agg_momentum' = Last(loc.medians)

\* C8: a call on N >= 1 updates runs at most maxiter iterations, each step
\* either one more iteration or the return, stops at the first iteration
\* whose objective change is below ftol times the new objective, raises
\* nothing, and returns and stores the median of the last solver call.
C8_BoundedLoopReturnsLastMedian == [][C8_Step]_vars

\* A call used up its iterations without converging and returned the
\* median of its last solver call.
C8_Witness ==
    /\ agg_pc = "done"
    /\ Len(updates) >= 2
    /\ maxiter >= 2 /\ loc.i = maxiter /\ ~loc.broke
    /\ Len(loc.medians) = maxiter + 1
    /\ agg_ret = Last(loc.medians) /\ agg_momentum = agg_ret
    /\ agg_ret # loc.medians[1]

\* A plain TorchClient through optimization steps of both kinds: single
\* gradient steps and rounds of local training, with reads of the saved
\* gradient in between.
NextTrain ==
    \/ \E d \in ModelTensors, rg \in [P -> BOOLEAN] : set_model(d, rg)
    \/ \E name \in {"crossentropy", "mse"} : set_loss(name)
    \/ reset_data_loader
    \/ \E gnew \in GradTensors : compute_gradient(gnew)
    \/ \E batches \in BatchSeqs : local_training(batches)
    \/ get_gradient

SpecTrain == InitPlain /\ [][NextTrain]_vars

\* A call that ran at least one optimization step to its end.
StepTaken ==
    /\ \/ \E gnew \in GradTensors : compute_gradient(gnew)
       \/ \E batches \in BatchSeqs : batches # <<>> /\ local_training(batches)
    /\ err' = "none"

\* The gradient of the most recent step, flattened.
LatestGradient(g) == Cat(g, get_para_params(g))

\* C11: in the plain variant, after every optimization step (compute_gradient
\* or a batch step of local_training) the saved gradient buffer holds the
\* gradient that step computed, and a get_gradient that follows the step
\* returns it without error.
C11_SavedGradIsLatest ==
    [][/\ StepTaken =>
             \A p \in P : grad'[p] # None => saved_grad'[p] = grad'[p]
       /\ (op = "compute_gradient" /\ err = "none" /\ op' = "get_gradient") =>
             err' = "none" /\ ret' = LatestGradient(grad)]_vars

\* C12: in the momentum variant _save_grad changes only the momentum buffer:
\* after every compute_gradient that ends without error, first or later,
\* each p.grad still holds the gradient backward() left in it.
C12_SaveGradKeepsGradient ==
    [][\A gnew \in GradTensors :
          (variant = "momentum" /\ compute_gradient(gnew) /\ err' = "none") =>
              grad' = backward(zero_grad(grad), requires_grad, gnew)]_vars

====
